---- MODULE Spec2Model ----
(***************************************************************************)
(* Model of python/pybind11_utils.cc of vineyard (v6d):                    *)
(*   - vineyard_add_doc: attaches a docstring to a Python object, once;    *)
(*   - detail::from_json / detail::to_json: the bridge between             *)
(*     nlohmann json values and Python objects.                            *)
(* Two specifications share the module: SpecDoc drives vineyard_add_doc    *)
(* over a small universe of Python objects, SpecConv applies the two       *)
(* conversions to bounded inputs.                                          *)
(***************************************************************************)
EXTENDS Integers, Sequences, FiniteSets, TLC

VARIABLES
  objs,       \* the documentable Python objects that exist in this run
  slots,      \* content of every documentation slot
  last,       \* the latest vineyard_add_doc call: target, payload, result
  succeeded,  \* history: targets on which some call has returned None
  written,    \* history: targets on which a call returned None and left
              \* the slot holding a non-empty docstring
  input,      \* the value handed to to_json / from_json
  mode,       \* "encode": to_json(input); "roundtrip": to_json(from_json(input))
  decoded,    \* the Python object built by from_json
  out,        \* the json value (or the exception) produced by to_json
  pc,         \* position of the conversion run
  permissiveStr  \* build option: py::isinstance<py::str> also accepts bytes

vars == <<objs, slots, last, succeeded, written,
          input, mode, decoded, out, pc, permissiveStr>>

docVars == <<objs, slots, last, succeeded, written>>
convVars == <<input, mode, decoded, out, pc, permissiveStr>>

-----------------------------------------------------------------------------
(* Bounds *)

MaxObjects == 1    \* objects picked for one run
MaxTextLen == 1    \* length of the generated docstring payloads

-----------------------------------------------------------------------------
(* Text and bytes *)

\* A Python str is a sequence of code points, a bytes object and a C string
\* are sequences of byte values; a C string never contains the terminator.
NUL == 0

StrAlphabet == {233}               \* U+00E9
LoneSurrogate == <<55296>>         \* a str that has no UTF-8 encoding
BytesAlphabet == {0, 97}

\* the default of doc_str: "<invalid string>"
InvalidString ==
  <<60, 105, 110, 118, 97, 108, 105, 100, 32, 115, 116, 114, 105, 110, 103, 62>>

SeqsUpTo(S, n) == UNION {[1..k -> S] : k \in 0..n}

IsSurrogate(c) == c >= 55296 /\ c <= 57343

Utf8Char(c) ==
  IF c < 128 THEN <<c>>
  ELSE IF c < 2048 THEN <<192 + (c \div 64), 128 + (c % 64)>>
  ELSE IF c < 65536
    THEN <<224 + (c \div 4096), 128 + ((c \div 64) % 64), 128 + (c % 64)>>
  ELSE <<240 + (c \div 262144), 128 + ((c \div 4096) % 64),
         128 + ((c \div 64) % 64), 128 + (c % 64)>>

RECURSIVE Utf8(_)
Utf8(s) == IF s = <<>> THEN <<>> ELSE Utf8Char(Head(s)) \o Utf8(Tail(s))

\* PyUnicode_AsUTF8AndSize: NULL when the str holds a lone surrogate
PyUnicode_AsUTF8AndSize(s) ==
  IF \E i \in 1..Len(s) : IsSurrogate(s[i])
    THEN [ok |-> FALSE, s |-> <<>>]
    ELSE [ok |-> TRUE, s |-> Utf8(s)]

\* strndup(str, n): the bytes of str up to n or to the first NUL
RECURSIVE strndup(_, _)
strndup(str, n) ==
  IF n = 0 \/ str = <<>> \/ Head(str) = NUL THEN <<>>
  ELSE <<Head(str)>> \o strndup(Tail(str), n - 1)

-----------------------------------------------------------------------------
(* Python objects seen by vineyard_add_doc *)

\* payloads (doc_obj)
BytesObj(s) == [k |-> "bytes", s |-> s]
StrObj(s) == [k |-> "str", s |-> s]
OtherObj == [k |-> "other"]           \* neither bytes nor str, e.g. 42

\* C docstring fields
NullDoc == [k |-> "null"]
CStr(s) == [k |-> "cstr", s |-> s]

\* __doc__ attribute of a generic object
AbsentAttr == [k |-> "absent"]
NoneAttr == [k |-> "none"]

Payloads ==
  {BytesObj(s) : s \in SeqsUpTo(BytesAlphabet, MaxTextLen)}
    \cup {StrObj(s) : s \in SeqsUpTo(StrAlphabet, MaxTextLen)}
    \cup {StrObj(LoneSurrogate), OtherObj}

\* "f": builtin function (PyCFunction_Type); "im": instance method wrapping
\* f; "md": method_descriptor; "gs": getset_descriptor; "ty": type object;
\* "g": any other object with a writable __doc__; "gn": any other object
\* that rejects attribute assignment.
Targets == {"f", "im", "md", "gs", "ty", "g", "gn"}

TypeOf(t) ==
  CASE t = "f" -> "PyCFunction_Type"
    [] t = "im" -> "PyInstanceMethod_Type"
    [] t = "md" -> "method_descriptor"
    [] t = "gs" -> "getset_descriptor"
    [] t = "ty" -> "PyType_Type"
    [] OTHER -> "object"

\* PyInstanceMethod_GET_FUNCTION
PyInstanceMethod_GET_FUNCTION(t) == "f"

\* the PyMethodDef behind a builtin function
m_ml(f) == "f.m_ml.ml_doc"

Settable(t) == t # "gn"

\* The branch of vineyard_add_doc taken for a target and the field it patches
SlotOf_WrongCast(t) ==
  CASE t = "f" -> m_ml(t)
    [] t = "im" -> "md.d_method.ml_doc"
    [] t = "md" -> "md.d_method.ml_doc"
    [] t = "gs" -> "gs.d_getset.doc"
    [] t = "ty" -> "ty.tp_doc"
    [] t = "g" -> "g.__doc__"
    [] OTHER -> "gn.__doc__"

SlotOf(t) ==
  CASE TypeOf(t) = "PyCFunction_Type" -> m_ml(t)
    [] TypeOf(t) = "PyInstanceMethod_Type" -> m_ml(PyInstanceMethod_GET_FUNCTION(t))
    [] TypeOf(t) = "method_descriptor" -> "md.d_method.ml_doc"
    [] TypeOf(t) = "getset_descriptor" -> "gs.d_getset.doc"
    [] TypeOf(t) = "PyType_Type" -> "ty.tp_doc"
    [] t = "g" -> "g.__doc__"
    [] OTHER -> "gn.__doc__"

IsGeneric(t) == TypeOf(t) = "object"

CSlots == {"f.m_ml.ml_doc", "md.d_method.ml_doc", "gs.d_getset.doc", "ty.tp_doc"}
AttrSlots == {"g.__doc__", "gn.__doc__"}
AllSlots == CSlots \cup AttrSlots

\* an instance method exists together with the function it wraps
Universe(O) == O \cup {PyInstanceMethod_GET_FUNCTION(t) : t \in O \cap {"im"}}

\* the slots some object of the run reaches
Reached(O) == {SlotOf(t) : t \in O} \cup {m_ml("f") : t \in O \cap {"f", "im"}}

-----------------------------------------------------------------------------
(* vineyard_add_doc *)

\* lines 42-54: doc_str / doc_len from doc_obj
DocString(p) ==
  IF p.k = "bytes" THEN [ok |-> TRUE, s |-> p.s]
  ELSE IF p.k = "str" THEN PyUnicode_AsUTF8AndSize(p.s)
  ELSE [ok |-> TRUE, s |-> InvalidString]

\* ml_doc && ml_doc[0]
HasCDoc_Never(v) == FALSE

HasCDoc(v) == v.k # "null" /\ Len(v.s) > 0

\* doc_attr != NULL && doc_attr != Py_None && (non-empty bytes or str)
HasDocAttr_NullOnly(v) == v.k # "absent" /\ v.k # "none"

HasDocAttr_StrOnly(v) ==
  v.k # "absent" /\ v.k # "none" /\ v.k = "str" /\ Len(v.s) > 0

HasDocAttr(v) ==
  /\ v.k # "absent"
  /\ v.k # "none"
  /\ \/ (v.k = "bytes" /\ Len(v.s) > 0)
     \/ (v.k = "str" /\ Len(v.s) > 0)

\* the result of one call: the error raised (or "ok") and the slots after it
AddDocResult(sl, t, p) ==
  LET d == DocString(p)
      s == SlotOf(t)
  IN IF ~d.ok THEN [r |-> "InvalidText", slots |-> sl]
     ELSE IF ~IsGeneric(t)
       THEN IF HasCDoc(sl[s])
              THEN [r |-> "AlreadyDocumented", slots |-> sl]
              ELSE [r |-> "ok",
                    slots |-> [sl EXCEPT ![s] = CStr(strndup(d.s, Len(d.s)))]]
     ELSE IF HasDocAttr(sl[s])
       THEN [r |-> "AlreadyDocumented", slots |-> sl]
     ELSE IF ~Settable(t)
       THEN [r |-> "AttributeNotSettable", slots |-> sl]
     ELSE [r |-> "ok", slots |-> [sl EXCEPT ![s] = p]]

\* a slot that holds a docstring of at least one character
NonEmpty(v) == v.k \in {"cstr", "bytes", "str"} /\ v.s # <<>>

NoCall == [t |-> "none", p |-> [k |-> "none"], r |-> "none"]

InitCDocs == {NullDoc, CStr(<<>>), CStr(<<97>>)}
InitAttrs == {AbsentAttr, NoneAttr, StrObj(<<>>), StrObj(<<233>>), OtherObj}

ConvIdle ==
  /\ input = [t |-> "none"]
  /\ mode = "none"
  /\ decoded = [t |-> "none"]
  /\ out = [t |-> "none"]
  /\ pc = "idle"
  /\ permissiveStr = FALSE

InitDoc ==
  /\ objs \in {Universe(O) : O \in {P \in SUBSET Targets :
                                        Cardinality(P) \in 1..MaxObjects}}
  /\ \E ini \in [Reached(objs) -> InitCDocs \cup InitAttrs] :
       /\ \A s \in Reached(objs) :
            ini[s] \in (IF s \in CSlots THEN InitCDocs ELSE InitAttrs)
       /\ slots = [s \in AllSlots |->
                     IF s \in Reached(objs) THEN ini[s]
                     ELSE IF s \in CSlots THEN NullDoc ELSE NoneAttr]
  /\ last = NoCall
  /\ succeeded = {}
  /\ written = {}
  /\ ConvIdle

vineyard_add_doc(t, p) ==
  LET res == AddDocResult(slots, t, p)
  IN /\ slots' = res.slots
     /\ last' = [t |-> t, p |-> p, r |-> res.r]
     /\ succeeded' = IF res.r = "ok" THEN succeeded \cup {t} ELSE succeeded
     /\ written' = IF res.r = "ok" /\ NonEmpty(res.slots[SlotOf(t)])
                     THEN written \cup {t} ELSE written
     /\ UNCHANGED <<objs, convVars>>

AddDoc == \E t \in objs : \E p \in Payloads : vineyard_add_doc(t, p)

NextDoc == AddDoc

SpecDoc == InitDoc /\ [][NextDoc]_vars

-----------------------------------------------------------------------------
(* Properties of vineyard_add_doc (checked under SpecDoc) *)

\* the payload is a byte sequence or a str that unpacks as UTF-8
ValidText(p) ==
  p.k = "bytes" \/ (p.k = "str" /\ \A i \in 1..Len(p.s) : ~IsSurrogate(p.s[i]))

\* the bytes a valid text payload stands for
TextBytes(p) == IF p.k = "bytes" THEN p.s ELSE Utf8(p.s)

\* a valid, non-empty text without NUL byte (such as "hello")
PlainText(p) ==
  /\ ValidText(p)
  /\ p.s # <<>>
  /\ \A i \in 1..Len(TextBytes(p)) : TextBytes(p)[i] # NUL

\* the slot reads as the text of payload p
Reads(v, p) == IF v.k = "cstr" THEN v.s = TextBytes(p) ELSE v = p

\* the bytes of b before its first NUL
UpToNul(b) ==
  LET nuls == {i \in 1..Len(b) : b[i] = NUL}
      end == IF nuls = {} THEN Len(b)
             ELSE (CHOOSE i \in nuls : \A j \in nuls : i <= j) - 1
  IN SubSeq(b, 1, end)

\* C1: a documentation slot that is non-empty is never changed by a call,
\* whatever the target kind and the payload; on an empty slot of a target
\* that can be written, a call with a plain text ("hello") succeeds and the
\* slot then reads that text; on a non-empty slot a call with any valid text
\* ("world") fails with AlreadyDocumented.
C1_WriteOnce ==
  [][ /\ \A s \in AllSlots : NonEmpty(slots[s]) => slots'[s] = slots[s]
      /\ ( /\ Settable(last'.t)
           /\ ~NonEmpty(slots[SlotOf(last'.t)])
           /\ PlainText(last'.p) )
         => ( /\ last'.r = "ok"
              /\ Reads(slots'[SlotOf(last'.t)], last'.p) )
      /\ ( NonEmpty(slots[SlotOf(last'.t)]) /\ ValidText(last'.p) )
         => ( last'.r = "AlreadyDocumented" /\ slots' = slots )
    ]_vars

\* f was documented with U+00E9 by a call, and a later call with b"a" failed
C1_Witness ==
  /\ "f" \in written
  /\ slots[m_ml("f")] = CStr(<<195, 169>>)
  /\ last = [t |-> "f", p |-> BytesObj(<<97>>), r |-> "AlreadyDocumented"]

C3_InvalidPayloadRejected ==
  [][ ~ValidText(last'.p) => (last'.r = "InvalidText" /\ slots' = slots) ]_vars

\* C9: a call that reaches the generic-object fallback fails with
\* AlreadyDocumented when __doc__ is present, not None and non-empty, leaving
\* it as it is; otherwise it sets __doc__ to the supplied object, or fails
\* with AttributeNotSettable, leaving __doc__ as it is, when the target
\* rejects the assignment.
C9_GenericFallback ==
  [][ ( IsGeneric(last'.t) /\ (ValidText(last'.p) \/ last'.p = OtherObj) ) =>
        LET s == IF last'.t = "g" THEN "g.__doc__" ELSE "gn.__doc__"
        IN IF slots[s].k \in {"bytes", "str"} /\ slots[s].s # <<>>
             THEN last'.r = "AlreadyDocumented" /\ slots'[s] = slots[s]
           ELSE IF last'.t = "g"
             THEN last'.r = "ok" /\ slots'[s] = last'.p
           ELSE last'.r = "AttributeNotSettable" /\ slots'[s] = slots[s]
    ]_vars

\* the read-only object gn, whose __doc__ is an empty str, rejected a text
C9_Witness ==
  /\ last = [t |-> "gn", p |-> StrObj(<<233>>), r |-> "AttributeNotSettable"]
  /\ slots["gn.__doc__"] = StrObj(<<>>)

\* the slot a call on target t is expected to patch
ExpectedSlot(t) ==
  CASE t \in {"f", "im"} -> "f.m_ml.ml_doc"
    [] t = "md" -> "md.d_method.ml_doc"
    [] t = "gs" -> "gs.d_getset.doc"
    [] t = "ty" -> "ty.tp_doc"
    [] t = "g" -> "g.__doc__"
    [] OTHER -> "gn.__doc__"

Wrapper(t) == IF t = "f" THEN "im" ELSE "f"

\* a successful call changes only the slot of its target, a failing one none
FrameEffect ==
  /\ last'.r = "ok" =>
       \A s \in AllSlots \ {ExpectedSlot(last'.t)} : slots'[s] = slots[s]
  /\ last'.r # "ok" => slots' = slots

-----------------------------------------------------------------------------
(* json values and Python objects seen by from_json / to_json *)

IntBits == 4     \* width of number_integer_t and number_unsigned_t, scaled
MaxNodes == 3    \* nodes (leaves and containers) of a generated value

MinSigned == -(2^(IntBits - 1))
MaxSigned == 2^(IntBits - 1) - 1
MaxUnsigned == 2^IntBits - 1

JNull == [t |-> "Null"]
JBool(b) == [t |-> "Bool", b |-> b]
JInt(n) == [t |-> "Int64", n |-> n]
JUInt(n) == [t |-> "UInt64", n |-> n]
JFloat(x) == [t |-> "Float64", x |-> x]
JString(s) == [t |-> "String", s |-> s]
JArray(items) == [t |-> "Array", items |-> items]
JObject(entries) == [t |-> "Object", entries |-> entries]   \* <<key, value>> pairs

\* an exception leaving to_json
Error(e) == [t |-> "error", e |-> e]

PyNone == [t |-> "NoneType"]
PyBool(b) == [t |-> "bool", b |-> b]
PyInt(n) == [t |-> "int", n |-> n]
PyFloat(x) == [t |-> "float", x |-> x]
PyBytes(b) == [t |-> "bytes", bytes |-> b]
PyStr(s) == [t |-> "str", s |-> s]
PyList(items) == [t |-> "list", items |-> items]
PyTuple(items) == [t |-> "tuple", items |-> items]
PyDict(entries) == [t |-> "dict", entries |-> entries]      \* <<key, value>> pairs
PyFile == [t |-> "file"]                                    \* an open file handle

\* py::isinstance<T>(obj)
IsBool(obj) == obj.t = "bool"
IsInt(obj) == obj.t \in {"int", "bool"}          \* PyLong_Check: bool is an int
IsFloat(obj) == obj.t = "float"
IsBytes(obj) == obj.t = "bytes"
IsStr(obj) == obj.t = "str" \/ (permissiveStr /\ obj.t = "bytes")
IsSequence(obj) == obj.t \in {"tuple", "list"}
IsDict(obj) == obj.t = "dict"

\* the integer behind an object that passes PyLong_Check
IntValue(obj) == IF obj.t = "bool" THEN (IF obj.b THEN 1 ELSE 0) ELSE obj.n

\* obj.cast<json::number_integer_t>(): throws outside the signed range
CastSigned(n) ==
  IF n >= MinSigned /\ n <= MaxSigned THEN [ok |-> TRUE, v |-> n]
  ELSE [ok |-> FALSE, v |-> 0]

\* obj.cast<json::number_unsigned_t>(): throws outside the unsigned range
CastUnsigned(n) ==
  IF n >= 0 /\ n <= MaxUnsigned THEN [ok |-> TRUE, v |-> n]
  ELSE [ok |-> FALSE, v |-> 0]

\* a cast that wraps instead of throwing, with no comparison afterwards
EncodeInteger_Wrapping(n) ==
  LET w == n % (2^IntBits)
  IN JInt(IF w > MaxSigned THEN w - 2^IntBits ELSE w)

\* lines 184-199
EncodeInteger(n) ==
  LET s == CastSigned(n)
      u == CastUnsigned(n)
  IN IF s.ok /\ s.v = n THEN JInt(s.v)
     ELSE IF u.ok /\ u.v = n THEN JUInt(u.v)
     ELSE Error("IntegerOutOfRange")

B64Table ==
  <<"A", "B", "C", "D", "E", "F", "G", "H", "I", "J", "K", "L", "M",
    "N", "O", "P", "Q", "R", "S", "T", "U", "V", "W", "X", "Y", "Z",
    "a", "b", "c", "d", "e", "f", "g", "h", "i", "j", "k", "l", "m",
    "n", "o", "p", "q", "r", "s", "t", "u", "v", "w", "x", "y", "z",
    "0", "1", "2", "3", "4", "5", "6", "7", "8", "9", "+", "/">>

B64Char(i) == B64Table[i + 1]

\* base64.b64encode(obj).decode("utf-8")
RECURSIVE b64encode(_)
b64encode(b) ==
  IF Len(b) = 0 THEN ""
  ELSE IF Len(b) = 1
    THEN B64Char(b[1] \div 4) \o B64Char((b[1] % 4) * 16) \o "=="
  ELSE IF Len(b) = 2
    THEN B64Char(b[1] \div 4) \o B64Char((b[1] % 4) * 16 + (b[2] \div 16))
           \o B64Char((b[2] % 16) * 4) \o "="
  ELSE B64Char(b[1] \div 4) \o B64Char((b[1] % 4) * 16 + (b[2] \div 16))
         \o B64Char((b[2] % 16) * 4 + (b[3] \div 64)) \o B64Char(b[3] % 64)
         \o b64encode(SubSeq(b, 4, Len(b)))

Digits == <<"0", "1", "2", "3", "4", "5", "6", "7", "8", "9">>

RECURSIVE NatToStr(_)
NatToStr(n) ==
  IF n < 10 THEN Digits[n + 1] ELSE NatToStr(n \div 10) \o Digits[(n % 10) + 1]

\* py::str(key).cast<std::string>()
Str(key) ==
  CASE key.t = "str" -> key.s
    [] OTHER -> IF key.n < 0 THEN "-" \o NatToStr(-key.n) ELSE NatToStr(key.n)


\* the branch of to_json an object takes: the first check that succeeds
Dispatch_IntFirst(obj) ==
  IF obj.t = "NoneType" THEN "null"
  ELSE IF IsInt(obj) THEN "int"
  ELSE IF IsBool(obj) THEN "bool"
  ELSE IF IsFloat(obj) THEN "float"
  ELSE IF IsBytes(obj) THEN "bytes"
  ELSE IF IsStr(obj) THEN "str"
  ELSE IF IsSequence(obj) THEN "sequence"
  ELSE IF IsDict(obj) THEN "dict"
  ELSE "unsupported"

Dispatch(obj) ==
  IF obj.t = "NoneType" THEN "null"
  ELSE IF IsBool(obj) THEN "bool"
  ELSE IF IsInt(obj) THEN "int"
  ELSE IF IsFloat(obj) THEN "float"
  ELSE IF IsBytes(obj) THEN "bytes"
  ELSE IF IsStr(obj) THEN "str"
  ELSE IF IsSequence(obj) THEN "sequence"
  ELSE IF IsDict(obj) THEN "dict"
  ELSE "unsupported"

\* out.push_back(to_json(value)): an exception of to_json leaves the loop
PushBack_Swallow(acc, r) ==
  IF acc.t = "error" THEN acc
  ELSE IF r.t = "error" THEN acc
  ELSE JArray(Append(acc.items, r))

PushBack(acc, r) ==
  IF acc.t = "error" THEN acc
  ELSE IF r.t = "error" THEN r
  ELSE JArray(Append(acc.items, r))

\* the keys that occur, in the order of std::less<std::string>
KeyOrder == <<"42", "a", "b">>

KeyRank(k) == CHOOSE i \in 1..Len(KeyOrder) : KeyOrder[i] = k

\* where a json object (a std::map) puts a key it does not hold yet: after
\* the smaller keys
InsertAt(entries, k) ==
  1 + Cardinality({i \in 1..Len(entries) : KeyRank(entries[i][1]) < KeyRank(k)})

IndexOfKey(entries, k) ==
  LET hits == {i \in 1..Len(entries) : entries[i][1] = k}
  IN IF hits = {} THEN 0 ELSE CHOOSE i \in hits : TRUE

InsertEntry(entries, pos, e) ==
  SubSeq(entries, 1, pos - 1) \o <<e>> \o SubSeq(entries, pos, Len(entries))

\* out[key] = to_json(value): an exception leaves the loop, an existing key
\* is overwritten in place
ObjectAssign_KeepFirst(acc, k, r) ==
  IF acc.t = "error" THEN acc
  ELSE IF r.t = "error" THEN r
  ELSE IF IndexOfKey(acc.entries, k) # 0 THEN acc
  ELSE JObject(InsertEntry(acc.entries, InsertAt(acc.entries, k), <<k, r>>))

ObjectAssign(acc, k, r) ==
  IF acc.t = "error" THEN acc
  ELSE IF r.t = "error" THEN r
  ELSE IF IndexOfKey(acc.entries, k) # 0
    THEN JObject([acc.entries EXCEPT ![IndexOfKey(acc.entries, k)] = <<k, r>>])
  ELSE JObject(InsertEntry(acc.entries, InsertAt(acc.entries, k), <<k, r>>))

RECURSIVE to_json(_), ToJsonItems(_, _), ToJsonEntries(_, _)

ToJsonItems(items, acc) ==
  IF items = <<>> \/ acc.t = "error" THEN acc
  ELSE ToJsonItems(Tail(items), PushBack(acc, to_json(Head(items))))

ToJsonEntries(entries, acc) ==
  IF entries = <<>> \/ acc.t = "error" THEN acc
  ELSE ToJsonEntries(Tail(entries),
                     ObjectAssign(acc, Str(Head(entries)[1]),
                                  to_json(Head(entries)[2])))

to_json(obj) ==
  LET branch == Dispatch(obj)
  IN CASE branch = "null" -> JNull
       [] branch = "bool" -> JBool(obj.b)
       [] branch = "int" -> EncodeInteger(IntValue(obj))
       [] branch = "float" -> JFloat(obj.x)
       [] branch = "bytes" -> JString(b64encode(obj.bytes))
       [] branch = "str" -> JString(obj.s)
       [] branch = "sequence" -> ToJsonItems(obj.items, JArray(<<>>))
       [] branch = "dict" -> ToJsonEntries(obj.entries, JObject(<<>>))
       [] OTHER -> Error("UnsupportedType")

\* j.is_number_integer(): true of the signed and of the unsigned integers
is_number_integer(j) == j.t \in {"Int64", "UInt64"}

\* j.get<json::number_integer_t>(): an unsigned value is converted to signed
GetSigned(j) == IF j.n > MaxSigned THEN j.n - 2^IntBits ELSE j.n

\* obj.append(from_json(el))
ListAppend_Prepend(items, el) == <<el>> \o items

ListAppend(items, el) == Append(items, el)

\* obj[py::str(key)] = from_json(value) on a Python dict
DictSetItem(entries, k, v) ==
  IF IndexOfKey(entries, k) # 0
    THEN [entries EXCEPT ![IndexOfKey(entries, k)] = <<k, v>>]
    ELSE Append(entries, <<k, v>>)

RECURSIVE from_json(_), FromJsonItems(_, _), FromJsonEntries(_, _)

FromJsonItems(items, acc) ==
  IF items = <<>> THEN acc
  ELSE FromJsonItems(Tail(items), ListAppend(acc, from_json(Head(items))))

FromJsonEntries(entries, acc) ==
  IF entries = <<>> THEN acc
  ELSE FromJsonEntries(Tail(entries),
                       DictSetItem(acc, PyStr(Head(entries)[1]),
                                   from_json(Head(entries)[2])))

from_json(j) ==
  IF j.t = "Null" THEN PyNone
  ELSE IF j.t = "Bool" THEN PyBool(j.b)
  ELSE IF is_number_integer(j) THEN PyInt(GetSigned(j))
  ELSE IF j.t = "UInt64" THEN PyInt(j.n)
  ELSE IF j.t = "Float64" THEN PyFloat(j.x)
  ELSE IF j.t = "String" THEN PyStr(j.s)
  ELSE IF j.t = "Array" THEN PyList(FromJsonItems(j.items, <<>>))
  ELSE PyDict(FromJsonEntries(j.entries, <<>>))

-----------------------------------------------------------------------------
(* Inputs of the conversions *)

\* sequences of k distinct elements of S
InjSeqs(S, k) == {q \in [1..k -> S] : \A i, j \in 1..k : i # j => q[i] # q[j]}

Zip(ks, vs) == [i \in 1..Len(vs) |-> <<ks[i], vs[i]>>]

PyLeaves ==
  {PyNone, PyBool(TRUE), PyInt(2^IntBits), PyBytes(<<255, 0, 16>>),
   PyStr("a"), PyFile}

PyKeys == {PyStr("a"), PyStr("42"), PyInt(42)}

\* the containers over the sequences QS of Python objects, none longer than n
PyContainers(QS, n) ==
  {PyList(q) : q \in QS}
    \cup {PyTuple(q) : q \in QS}
    \cup UNION {{PyDict(Zip(ks, q)) : ks \in InjSeqs(PyKeys, len),
                                     q \in {r \in QS : Len(r) = len}} :
                  len \in 0..n}

\* Py1 .. Py3: the Python objects with 1 .. 3 nodes; PyQ0 .. PyQ3: the
\* sequences of Python objects with 0 .. 3 nodes in all
PyQ0 == {<<>>}
Py1 == PyLeaves \cup PyContainers(PyQ0, 0)
PyQ1 == {<<v>> : v \in Py1}
Py2 == PyContainers(PyQ1, 1)
PyQ2 == {<<v>> \o q : v \in Py1, q \in PyQ1} \cup {<<v>> : v \in Py2}
Py3 == PyContainers(PyQ2, 2)
PyQ3 ==
  {<<v>> \o q : v \in Py1, q \in PyQ2}
    \cup {<<v>> \o q : v \in Py2, q \in PyQ1}
    \cup {<<v>> : v \in Py3}

\* the Python objects with k nodes, for k up to 4
PyOfSize(k) ==
  CASE k = 1 -> Py1
    [] k = 2 -> Py2
    [] k = 3 -> Py3
    [] k = 4 -> PyContainers(PyQ3, 3)

\* the objects handed to to_json: every object of at most size nodes, every
\* integer around the two ranges and some more leaves
PyInputs(size) ==
  UNION {PyOfSize(k) : k \in 1..size}
    \cup {PyInt(n) : n \in (MinSigned - 2)..(MaxUnsigned + 2)}
    \cup {PyBool(FALSE), PyFloat("1.5"), PyStr(""),
          PyBytes(<<>>), PyBytes(<<97>>), PyBytes(<<97, 98>>)}

JsonLeaves ==
  {JNull, JBool(TRUE), JInt(-1), JUInt(MaxUnsigned), JFloat("1.5"), JString("a")}

JsonKeys == {"a", "b"}

\* the key sequences of k keys a json object can hold: distinct and sorted
SortedKeys(k) ==
  {ks \in InjSeqs(JsonKeys, k) :
     \A i, j \in 1..k : i < j => KeyRank(ks[i]) < KeyRank(ks[j])}

\* the containers over the sequences QS of json values, none longer than n
JsonContainers(QS, n) ==
  {JArray(q) : q \in QS}
    \cup UNION {{JObject(Zip(ks, q)) : ks \in SortedKeys(len),
                                      q \in {r \in QS : Len(r) = len}} :
                  len \in 0..n}

JsonQ0 == {<<>>}
Json1 == JsonLeaves \cup JsonContainers(JsonQ0, 0)
JsonQ1 == {<<v>> : v \in Json1}
Json2 == JsonContainers(JsonQ1, 1)
JsonQ2 == {<<v>> \o q : v \in Json1, q \in JsonQ1} \cup {<<v>> : v \in Json2}
Json3 == JsonContainers(JsonQ2, 2)
JsonQ3 ==
  {<<v>> \o q : v \in Json1, q \in JsonQ2}
    \cup {<<v>> \o q : v \in Json2, q \in JsonQ1}
    \cup {<<v>> : v \in Json3}

\* the json values with k nodes, for k up to 4
JsonOfSize(k) ==
  CASE k = 1 -> Json1
    [] k = 2 -> Json2
    [] k = 3 -> Json3
    [] k = 4 -> JsonContainers(JsonQ3, 3)

\* the values handed to from_json: every value of at most size nodes, every
\* integer of the two ranges and some more leaves
JsonInputs(size) ==
  UNION {JsonOfSize(k) : k \in 1..size}
    \cup {JInt(n) : n \in MinSigned..MaxSigned}
    \cup {JUInt(n) : n \in 0..MaxUnsigned}
    \cup {JBool(FALSE), JString("")}

-----------------------------------------------------------------------------
(* The conversion runs *)

DocIdle ==
  /\ objs = {}
  /\ slots = [s \in AllSlots |-> IF s \in CSlots THEN NullDoc ELSE NoneAttr]
  /\ last = NoCall
  /\ succeeded = {}
  /\ written = {}

InitConv ==
  /\ \/ (mode = "encode" /\ input \in PyInputs(MaxNodes))
     \/ (mode = "roundtrip" /\ input \in JsonInputs(MaxNodes))
  /\ decoded = [t |-> "none"]
  /\ out = [t |-> "none"]
  /\ pc = "start"
  /\ permissiveStr \in BOOLEAN
  /\ DocIdle

\* to_json(input)
Encode ==
  /\ pc = "start"
  /\ mode = "encode"
  /\ out' = to_json(input)
  /\ pc' = "done"
  /\ UNCHANGED <<input, mode, decoded, permissiveStr, docVars>>

\* from_json(input)
Decode ==
  /\ pc = "start"
  /\ mode = "roundtrip"
  /\ decoded' = from_json(input)
  /\ pc' = "decoded"
  /\ UNCHANGED <<input, mode, out, permissiveStr, docVars>>

\* to_json of the object from_json built
Reencode ==
  /\ pc = "decoded"
  /\ out' = to_json(decoded)
  /\ pc' = "done"
  /\ UNCHANGED <<input, mode, decoded, permissiveStr, docVars>>

NextConv == Encode \/ Decode \/ Reencode

SpecConv == InitConv /\ [][NextConv]_vars

-----------------------------------------------------------------------------
(* Properties of from_json / to_json (checked under SpecConv) *)

Encoded == pc = "done" /\ mode = "encode"

RECURSIVE UsesUnsigned(_)
UsesUnsigned(j) ==
  CASE j.t = "UInt64" -> TRUE
    [] j.t = "Array" -> \E i \in 1..Len(j.items) : UsesUnsigned(j.items[i])
    [] j.t = "Object" -> \E i \in 1..Len(j.entries) : UsesUnsigned(j.entries[i][2])
    [] OTHER -> FALSE

\* C4: for every json value built without UInt64, to_json(from_json(v))
\* equals v, the order of array elements and of object keys included.
C4_RoundTrip ==
  (pc = "done" /\ mode = "roundtrip" /\ ~UsesUnsigned(input)) => out = input

\* an object of two keys, one holding an array, came back unchanged
C4_Witness ==
  /\ pc = "done"
  /\ mode = "roundtrip"
  /\ input = JObject(<<<<"a", JInt(-1)>>, <<"b", JArray(<<>>)>>>>)
  /\ decoded = PyDict(<<<<PyStr("a"), PyInt(-1)>>, <<PyStr("b"), PyList(<<>>)>>>>)
  /\ out = input

\* C5: to_json of an integer n is Int64(n) in the signed range, UInt64(n)
\* above it up to the unsigned maximum, and fails with IntegerOutOfRange
\* outside both; an integer result always carries n itself.
C5_IntegerEncoding ==
  (Encoded /\ input.t = "int") =>
    LET n == input.n
    IN /\ (n >= -(2^(IntBits - 1)) /\ n < 2^(IntBits - 1)) => out = JInt(n)
       /\ (n >= 2^(IntBits - 1) /\ n < 2^IntBits) => out = JUInt(n)
       /\ (n >= 2^IntBits \/ n < -(2^(IntBits - 1)))
            => out = Error("IntegerOutOfRange")
       /\ out.t \in {"Int64", "UInt64"} => out.n = n
       /\ n = -1 => out = JInt(-1)

\* the first integer above the signed range was encoded as unsigned
C5_Witness ==
  /\ Encoded
  /\ input = PyInt(2^(IntBits - 1))
  /\ out = JUInt(2^(IntBits - 1))

\* the object is of an unsupported kind, or holds one as an element or as a
\* mapped value at some depth
RECURSIVE ContainsUnsupported(_)
ContainsUnsupported(obj) ==
  CASE obj.t = "file" -> TRUE
    [] obj.t \in {"list", "tuple"} ->
         \E i \in 1..Len(obj.items) : ContainsUnsupported(obj.items[i])
    [] obj.t = "dict" ->
         \E i \in 1..Len(obj.entries) : ContainsUnsupported(obj.entries[i][2])
    [] OTHER -> FALSE

\* the error of the first value, in traversal order, that cannot be encoded
RECURSIVE FirstFailure(_), FirstFailureIn(_)
FirstFailureIn(values) ==
  IF values = <<>> THEN "none"
  ELSE IF FirstFailure(Head(values)) # "none" THEN FirstFailure(Head(values))
  ELSE FirstFailureIn(Tail(values))

FirstFailure(obj) ==
  CASE obj.t = "file" -> "UnsupportedType"
    [] obj.t = "int" ->
         IF obj.n < -(2^(IntBits - 1)) \/ obj.n >= 2^IntBits
           THEN "IntegerOutOfRange" ELSE "none"
    [] obj.t \in {"list", "tuple"} -> FirstFailureIn(obj.items)
    [] obj.t = "dict" ->
         FirstFailureIn([i \in 1..Len(obj.entries) |-> obj.entries[i][2]])
    [] OTHER -> "none"

\* C6 as stated: to_json of an object of an unsupported kind, or of a
\* sequence or mapping holding one at any depth, fails with UnsupportedType
\* and modifies neither its input nor any other state.
C6_UnsupportedFails ==
  [][ (pc = "start" /\ mode = "encode" /\ ContainsUnsupported(input)) =>
        ( /\ out' = Error("UnsupportedType")
          /\ input' = input
          /\ UNCHANGED docVars )
    ]_vars

\* C6 amended: such a call fails and modifies neither its input nor any other
\* state; the error is UnsupportedType, unless the traversal reaches an
\* integer outside both 64-bit ranges before the first unsupported value, and
\* then it is IntegerOutOfRange.
C6_UnsupportedFailsFirstError ==
  [][ (pc = "start" /\ mode = "encode" /\ ContainsUnsupported(input)) =>
        ( /\ out' = Error(FirstFailure(input))
          /\ FirstFailure(input) \in {"UnsupportedType", "IntegerOutOfRange"}
          /\ input' = input
          /\ UNCHANGED docVars )
    ]_vars

\* a file handle two levels down made the whole call fail
C6_Witness ==
  /\ Encoded
  /\ input = PyDict(<<<<PyStr("a"), PyList(<<PyFile>>)>>>>)
  /\ out = Error("UnsupportedType")

\* the text a mapping key is expected to become
KeyText(k) == IF k = PyInt(42) THEN "42" ELSE k.s

\* C7: to_json of a mapping whose values can all be encoded is an Object
\* whose keys are exactly the texts of the mapping's keys, each once, and
\* whose value under a key is the encoding of the value of the last key of
\* the mapping, in iteration order, that has this text.
C7_KeyCoercion ==
  ( /\ Encoded
    /\ input.t = "dict"
    /\ \A i \in 1..Len(input.entries) : to_json(input.entries[i][2]).t # "error" )
  => /\ out.t = "Object"
     /\ {out.entries[i][1] : i \in 1..Len(out.entries)}
          = {KeyText(input.entries[i][1]) : i \in 1..Len(input.entries)}
     /\ \A i, j \in 1..Len(out.entries) :
          i # j => out.entries[i][1] # out.entries[j][1]
     /\ \A i \in 1..Len(out.entries) :
          LET same == {j \in 1..Len(input.entries) :
                         KeyText(input.entries[j][1]) = out.entries[i][1]}
              final == CHOOSE j \in same : \A m \in same : m <= j
          IN out.entries[i][2] = to_json(input.entries[final][2])

\* the keys 42 and "42" collided and the value of the later one was kept
C7_Witness ==
  /\ Encoded
  /\ input = PyDict(<<<<PyInt(42), PyNone>>, <<PyStr("42"), PyBool(TRUE)>>>>)
  /\ out = JObject(<<<<"42", JBool(TRUE)>>>>)

\* the base64 text of the byte sequences among the inputs
ExpectedB64(b) ==
  CASE b = <<>> -> ""
    [] b = <<97>> -> "YQ=="
    [] b = <<97, 98>> -> "YWI="
    [] b = <<255, 0, 16>> -> "/wAQ"

\* C8: to_json decides on the first check that succeeds, in the order None,
\* bool, int, float, bytes, str, sequence, dict: a bool becomes Bool although
\* it also passes the int check, and a bytes object becomes the String of
\* its base64 text although a permissive str check accepts it too.
C8_DispatchOrder ==
  Encoded =>
    CASE input.t = "NoneType" -> out = JNull
      [] input.t = "bool" -> out = JBool(input.b)
      [] input.t = "int" ->
           out.t \in {"Int64", "UInt64"} \/ out = Error("IntegerOutOfRange")
      [] input.t = "float" -> out = JFloat(input.x)
      [] input.t = "bytes" -> out = JString(ExpectedB64(input.bytes))
      [] input.t = "str" -> out = JString(input.s)
      [] input.t \in {"list", "tuple"} -> out.t \in {"Array", "error"}
      [] input.t = "dict" -> out.t \in {"Object", "error"}
      [] OTHER -> out = Error("UnsupportedType")

\* True, which also passes the int check, was encoded as Bool
C8_Witness ==
  /\ Encoded
  /\ input = PyBool(TRUE)
  /\ IsInt(input)
  /\ out = JBool(TRUE)

====
